---- MODULE Spec2Model ----
(***************************************************************************)
(* Frame Studio: the canvas compositor (FrameCanvas.tsx), the application  *)
(* state and its handlers (routes/index.tsx), the image store and the      *)
(* camera-logo resolver (lib/storage.ts).                                  *)
(*                                                                         *)
(* Conventions.                                                            *)
(*  - A JavaScript object is a record; an optional property that is not    *)
(*    set is a field that is not in the record's DOMAIN.                   *)
(*  - null is the record Null.                                             *)
(*  - A string whose characters the code inspects (a hex colour, an EXIF   *)
(*    make or model) is a tuple of one-character strings; a string the     *)
(*    code only compares or passes on is a TLA+ string.                    *)
(*  - A pixel length is a rational number kept as an integer count of      *)
(*    1/PxScale pixels.                                                    *)
(***************************************************************************)
EXTENDS Integers, Sequences, FiniteSets, TLC

Null == [null |-> TRUE]

Has(obj, key) == key \in DOMAIN obj

\* { ...a, ...b }
Spread(a, b) ==
  [k \in (DOMAIN a) \cup (DOMAIN b) |-> IF k \in DOMAIN b THEN b[k] ELSE a[k]]

\* const { [key]: _, ...rest } = obj
Omit(obj, key) == [k \in (DOMAIN obj) \ {key} |-> obj[k]]

(***************************************************************************)
(* Colours.                                                                *)
(***************************************************************************)
ColorBlack == <<"#", "0", "0", "0", "0", "0", "0">>
ColorWhite == <<"#", "f", "f", "f", "f", "f", "f">>
ColorGray == <<"#", "8", "0", "8", "0", "8", "0">>

(***************************************************************************)
(* Settings and presets (routes/index.tsx).                                *)
(***************************************************************************)
DEFAULT_SETTINGS ==
  [frameWidth |-> 8,
   frameColor |-> ColorWhite,
   textColor |-> ColorBlack,
   contrastAwareText |-> TRUE,
   textEnabled |-> FALSE,
   showShotOnText |-> FALSE,
   showExifData |-> FALSE]

PRESETS ==
  << [name |-> "Classic White",
      frameWidth |-> 4,
      frameColor |-> ColorWhite,
      textColor |-> ColorBlack],
     [name |-> "Black & White",
      frameWidth |-> 4,
      frameColor |-> ColorBlack,
      textColor |-> ColorWhite],
     [name |-> "Black Bottom Info",
      frameWidths |-> [top |-> 2, right |-> 2, bottom |-> 12, left |-> 2],
      frameColor |-> ColorBlack,
      textColor |-> ColorWhite,
      contrastAwareText |-> TRUE,
      textEnabled |-> TRUE,
      showShotOnText |-> TRUE,
      showExifData |-> TRUE] >>

PresetSet == {PRESETS[i] : i \in DOMAIN PRESETS}

(***************************************************************************)
(* Geometry (FrameCanvas.tsx, img.onload).                                 *)
(***************************************************************************)
\* Pixel lengths are counted in 1/PxScale pixels: avgImageSize has the
\* denominator 2 and the percentage the denominator 100.
PxScale == 200

\* SidePx with the average taken of the width alone.
SidePx_widthOnly(imageWidth, imageHeight, percent) ==
  ((imageWidth + imageWidth) * (PxScale \div 2) * percent) \div 100

\* const avgImageSize = (imageWidth + imageHeight) / 2, and then
\* (avgImageSize * percent) / 100, in 1/PxScale pixels.
SidePx(imageWidth, imageHeight, percent) ==
  ((imageWidth + imageHeight) * (PxScale \div 2) * percent) \div 100

\* The canvas of a photo with the four borders around it.
WithCanvas(imageWidth, imageHeight, sides) ==
  [topPx |-> sides.topPx,
   rightPx |-> sides.rightPx,
   bottomPx |-> sides.bottomPx,
   leftPx |-> sides.leftPx,
   canvasWidth |-> imageWidth * PxScale + sides.leftPx + sides.rightPx,
   canvasHeight |-> imageHeight * PxScale + sides.topPx + sides.bottomPx]

\* computeGeometry taking the bottom border from frameWidths and the other
\* three from frameWidth.
computeGeometry_mixed(imageWidth, imageHeight, settings) ==
  LET uniform == SidePx(imageWidth, imageHeight, settings.frameWidth)
  IN WithCanvas(imageWidth, imageHeight,
       [topPx |-> uniform, rightPx |-> uniform, leftPx |-> uniform,
        bottomPx |-> IF Has(settings, "frameWidths")
                     THEN SidePx(imageWidth, imageHeight, settings.frameWidths.bottom)
                     ELSE uniform])

\* computeGeometry reading frameWidths.top for the bottom border too.
computeGeometry_topForBottom(imageWidth, imageHeight, settings) ==
  LET side(percent) == SidePx(imageWidth, imageHeight, percent)
  IN WithCanvas(imageWidth, imageHeight,
       IF Has(settings, "frameWidths")
       THEN [topPx |-> side(settings.frameWidths.top),
             rightPx |-> side(settings.frameWidths.right),
             bottomPx |-> side(settings.frameWidths.top),
             leftPx |-> side(settings.frameWidths.left)]
       ELSE [topPx |-> side(settings.frameWidth), rightPx |-> side(settings.frameWidth),
             bottomPx |-> side(settings.frameWidth), leftPx |-> side(settings.frameWidth)])

\* A geometry that adds a text area below the bottom border when the text
\* is enabled.
computeGeometry_textArea(imageWidth, imageHeight, settings) ==
  LET sides ==
        IF Has(settings, "frameWidths")
        THEN [topPx |-> SidePx(imageWidth, imageHeight, settings.frameWidths.top),
              rightPx |-> SidePx(imageWidth, imageHeight, settings.frameWidths.right),
              bottomPx |-> SidePx(imageWidth, imageHeight, settings.frameWidths.bottom),
              leftPx |-> SidePx(imageWidth, imageHeight, settings.frameWidths.left)]
        ELSE LET frameWidthPx == SidePx(imageWidth, imageHeight, settings.frameWidth)
             IN [topPx |-> frameWidthPx, rightPx |-> frameWidthPx,
                 bottomPx |-> frameWidthPx, leftPx |-> frameWidthPx]
      g == WithCanvas(imageWidth, imageHeight, sides)
  IN IF Has(settings, "textEnabled") /\ settings.textEnabled
     THEN [g EXCEPT !.canvasHeight = @ + g.bottomPx]
     ELSE g

\* The border thicknesses and the canvas dimensions img.onload computes.
computeGeometry(imageWidth, imageHeight, settings) ==
  LET sides ==
        IF Has(settings, "frameWidths")
        THEN [topPx |-> SidePx(imageWidth, imageHeight, settings.frameWidths.top),
              rightPx |-> SidePx(imageWidth, imageHeight, settings.frameWidths.right),
              bottomPx |-> SidePx(imageWidth, imageHeight, settings.frameWidths.bottom),
              leftPx |-> SidePx(imageWidth, imageHeight, settings.frameWidths.left)]
        ELSE LET frameWidthPx == SidePx(imageWidth, imageHeight, settings.frameWidth)
             IN [topPx |-> frameWidthPx, rightPx |-> frameWidthPx,
                 bottomPx |-> frameWidthPx, leftPx |-> frameWidthPx]
  IN WithCanvas(imageWidth, imageHeight, sides)

\* canvas.width = v: the attribute is an unsigned long, the fraction is dropped.
CanvasAttr(px) == px \div PxScale

(***************************************************************************)
(* Contrast (FrameCanvas.tsx getLuminance / getContrastTextColor and       *)
(* lib/storage.ts getLuminance / isDarkBackground).                        *)
(***************************************************************************)
HexDigits ==
  <<"0", "1", "2", "3", "4", "5", "6", "7", "8", "9", "a", "b", "c", "d", "e", "f">>

HexUpper == <<"A", "B", "C", "D", "E", "F">>

\* The value of one hexadecimal digit, as parseInt(_, 16) reads it.
HexValue(ch) ==
  IF \E i \in DOMAIN HexUpper : HexUpper[i] = ch
  THEN 9 + (CHOOSE i \in DOMAIN HexUpper : HexUpper[i] = ch)
  ELSE (CHOOSE i \in DOMAIN HexDigits : HexDigits[i] = ch) - 1

\* hexColor.replace('#', ''): the first '#' is removed.
RemoveHash(hexColor) ==
  IF \E i \in DOMAIN hexColor : hexColor[i] = "#"
  THEN LET first == CHOOSE i \in DOMAIN hexColor :
                      /\ hexColor[i] = "#"
                      /\ \A j \in 1..(i - 1) : hexColor[j] # "#"
       IN SubSeq(hexColor, 1, first - 1) \o SubSeq(hexColor, first + 1, Len(hexColor))
  ELSE hexColor

IsHexDigit(ch) ==
  \/ \E i \in DOMAIN HexDigits : HexDigits[i] = ch
  \/ \E i \in DOMAIN HexUpper : HexUpper[i] = ch

\* hex.substring(from, to), from and to counted from 0.
substring(str, from, to) ==
  SubSeq(str, from + 1, IF to < Len(str) THEN to ELSE Len(str))

\* parseInt(str, 16) of at most two characters, none of them a space, a sign
\* or an x: the value of the hex digits str begins with, NaN when it begins
\* with none.
parseInt16(str) ==
  IF str = <<>> \/ ~IsHexDigit(str[1]) THEN [nan |-> TRUE, value |-> 0]
  ELSE IF Len(str) >= 2 /\ IsHexDigit(str[2])
       THEN [nan |-> FALSE, value |-> 16 * HexValue(str[1]) + HexValue(str[2])]
       ELSE [nan |-> FALSE, value |-> HexValue(str[1])]

\* parseInt(hex.substring(from, from + 2), 16), from counted from 0.
ParseChannel(hex, from) == parseInt16(substring(hex, from, from + 2))

\* Luminances are counted in 1/LumScale, in two parts: whole units and a
\* remainder in 1/(LumScale * LumSplit).
LumScale == 100000000

LumSplit == 10000

\* toLinear(c / 255) for c = 0..255, rounded to 1/LumScale:
\* c <= 0.03928 ? c / 12.92 : Math.pow((c + 0.055) / 1.055, 2.4).
ToLinearTable ==
  <<
     0, 30353, 60705, 91058, 121411, 151763, 182116, 212469,
     242822, 273174, 303527, 334654, 367651, 402472, 439144, 477695,
     518152, 560539, 604883, 651209, 699541, 749903, 802319, 856813,
     913406, 972122, 1032982, 1096009, 1161225, 1228649, 1298303, 1370208,
     1444384, 1520851, 1599629, 1680738, 1764195, 1850022, 1938236, 2028856,
     2121901, 2217388, 2315337, 2415763, 2518686, 2624122, 2732089, 2842604,
     2955683, 3071344, 3189603, 3310477, 3433981, 3560131, 3688945, 3820437,
     3954624, 4091520, 4231141, 4373503, 4518620, 4666509, 4817182, 4970657,
     5126946, 5286065, 5448028, 5612849, 5780543, 5951124, 6124605, 6301002,
     6480327, 6662594, 6847817, 7036010, 7227185, 7421357, 7618538, 7818742,
     8021982, 8228271, 8437621, 8650046, 8865559, 9084171, 9305896, 9530747,
     9758735, 9989873, 10224173, 10461648, 10702310, 10946171, 11193243, 11443537,
     11697067, 11953843, 12213877, 12477182, 12743768, 13013648, 13286832, 13563333,
     13843162, 14126329, 14412847, 14702727, 14995979, 15292615, 15592646, 15896084,
     16202938, 16513219, 16826940, 17144110, 17464740, 17788842, 18116424, 18447499,
     18782077, 19120168, 19461783, 19806932, 20155625, 20507874, 20863687, 21223076,
     21586050, 21952620, 22322796, 22696587, 23074005, 23455058, 23839757, 24228112,
     24620133, 25015828, 25415209, 25818285, 26225066, 26635560, 27049779, 27467731,
     27889426, 28314874, 28744084, 29177065, 29613827, 30054379, 30498731, 30946892,
     31398871, 31854678, 32314321, 32777810, 33245154, 33716362, 34191442, 34670406,
     35153260, 35640014, 36130678, 36625260, 37123768, 37626212, 38132601, 38642943,
     39157248, 39675523, 40197778, 40724021, 41254261, 41788507, 42326767, 42869050,
     43415364, 43965717, 44520119, 45078578, 45641102, 46207700, 46778380, 47353150,
     47932018, 48514994, 49102085, 49693300, 50288646, 50888132, 51491767, 52099557,
     52711513, 53327640, 53947949, 54572446, 55201140, 55834039, 56471151, 57112483,
     57758044, 58407842, 59061884, 59720179, 60382734, 61049557, 61720656, 62396039,
     63075714, 63759687, 64447968, 65140564, 65837482, 66538730, 67244316, 67954247,
     68668531, 69387176, 70110189, 70837578, 71569350, 72305513, 73046074, 73791041,
     74540421, 75294222, 76052450, 76815115, 77582222, 78353779, 79129794, 79910274,
     80695226, 81484657, 82278575, 83076988, 83879901, 84687323, 85499261, 86315721,
     87136712, 87962240, 88792312, 89626935, 90466117, 91309865, 92158186, 93011086,
     93868573, 94730654, 95597335, 96468625, 97344529, 98225055, 99110210, 100000000
  >>

toLinear(channel) == ToLinearTable[channel + 1]

\* 0.2126 * toLinear(r) + 0.7152 * toLinear(g) + 0.0722 * toLinear(b), NaN
\* when a channel is NaN.
getLuminance(hexColor) ==
  LET hex == RemoveHash(hexColor)
      red == ParseChannel(hex, 0)
      green == ParseChannel(hex, 2)
      blue == ParseChannel(hex, 4)
      r == toLinear(red.value)
      g == toLinear(green.value)
      b == toLinear(blue.value)
      high == 2126 * (r \div LumSplit) + 7152 * (g \div LumSplit) + 722 * (b \div LumSplit)
      low == 2126 * (r % LumSplit) + 7152 * (g % LumSplit) + 722 * (b % LumSplit)
  IN IF red.nan \/ green.nan \/ blue.nan
     THEN [nan |-> TRUE, units |-> 0, rest |-> 0]
     ELSE [nan |-> FALSE, units |-> high + (low \div LumSplit), rest |-> low % LumSplit]

\* 0.179, in 1/LumScale.
LumThreshold == 17900000

\* luminance > 0.179: false of NaN
AboveThreshold(luminance) ==
  /\ ~luminance.nan
  /\ \/ luminance.units > LumThreshold
     \/ luminance.units = LumThreshold /\ luminance.rest > 0

\* luminance <= 0.179: false of NaN
AtMostThreshold(luminance) ==
  /\ ~luminance.nan
  /\ \/ luminance.units < LumThreshold
     \/ luminance.units = LumThreshold /\ luminance.rest = 0

\* getContrastTextColor keeping the background colour itself on dark
\* backgrounds.
getContrastTextColor_keepDark(backgroundColor) ==
  IF AboveThreshold(getLuminance(backgroundColor)) THEN ColorBlack ELSE backgroundColor

getContrastTextColor(backgroundColor) ==
  IF AboveThreshold(getLuminance(backgroundColor)) THEN ColorBlack ELSE ColorWhite

isDarkBackground(backgroundColor) == AtMostThreshold(getLuminance(backgroundColor))

(***************************************************************************)
(* Camera logos (lib/storage.ts).                                          *)
(***************************************************************************)
UpperCase ==
  <<"A", "B", "C", "D", "E", "F", "G", "H", "I", "J", "K", "L", "M",
    "N", "O", "P", "Q", "R", "S", "T", "U", "V", "W", "X", "Y", "Z">>

LowerCase ==
  <<"a", "b", "c", "d", "e", "f", "g", "h", "i", "j", "k", "l", "m",
    "n", "o", "p", "q", "r", "s", "t", "u", "v", "w", "x", "y", "z">>

toLowerCase(str) ==
  [i \in DOMAIN str |->
     IF \E k \in DOMAIN UpperCase : UpperCase[k] = str[i]
     THEN LowerCase[CHOOSE k \in DOMAIN UpperCase : UpperCase[k] = str[i]]
     ELSE str[i]]

IsSpace(ch) == ch \in {" ", "\t", "\n"}

RECURSIVE trimStart(_)
trimStart(str) ==
  IF str # <<>> /\ IsSpace(Head(str)) THEN trimStart(Tail(str)) ELSE str

RECURSIVE trimEnd(_)
trimEnd(str) ==
  IF str # <<>> /\ IsSpace(str[Len(str)])
  THEN trimEnd(SubSeq(str, 1, Len(str) - 1))
  ELSE str

trim(str) == trimEnd(trimStart(str))

\* str.replace(/\s+/g, ' ')
RECURSIVE collapseSpaces(_)
collapseSpaces(str) ==
  IF str = <<>> THEN <<>>
  ELSE IF IsSpace(Head(str))
       THEN <<" ">> \o collapseSpaces(trimStart(Tail(str)))
       ELSE <<Head(str)>> \o collapseSpaces(Tail(str))

normalize(str) == collapseSpaces(trim(toLowerCase(str)))

\* a.includes(b)
includes(a, b) ==
  \E i \in 1..(Len(a) - Len(b) + 1) : SubSeq(a, i, i + Len(b) - 1) = b

\* The brand table; models keeps the declaration order of the object literal.
CAMERA_BRANDS ==
  << [make |-> <<"f", "u", "j", "i", "f", "i", "l", "m">>,
      folder |-> "fujifilm",
      models |->
        << <<(<<"x", "1", "0", "0", "v", "i">>), "x100vi">>,
           <<(<<"x", "1", "0", "0", "v">>), "x100vi">>,
           <<(<<"x", "-", "e", "5">>), "x-e5">>,
           <<(<<"x", "-", "e", "4">>), "x-e5">>,
           <<(<<"x", "-", "h", "2">>), "x-h2">>,
           <<(<<"x", "-", "h", "2", "s">>), "x-h2s">>,
           <<(<<"x", "-", "t", "5", "0">>), "x-t50">>,
           <<(<<"x", "-", "t", "5">>), "x-t50">>,
           <<(<<"x", "-", "t", "3", "0", " ", "i", "i">>), "x-t30iii">>,
           <<(<<"x", "-", "t", "3", "0", "i", "i", "i">>), "x-t30iii">>,
           <<(<<"x", "-", "m", "5">>), "x-m5">>,
           <<(<<"x", "-", "h", "a", "l", "f">>), "x-half">> >>,
      brandLogo |-> "fujifilm_logo"],
     [make |-> <<"a", "p", "p", "l", "e">>,
      folder |-> "apple",
      models |-> << <<(<<"i", "p", "h", "o", "n", "e">>), "iphone">> >>,
      brandLogo |-> "apple_logo"] >>

\* Property names every object literal inherits from Object.prototype that
\* are fixed points of normalize.
ObjectPrototypeKeys ==
  { <<"c", "o", "n", "s", "t", "r", "u", "c", "t", "o", "r">>,
    <<"_", "_", "p", "r", "o", "t", "o", "_", "_">> }

\* A call that ends in an uncaught TypeError.
Throws == [throws |-> "TypeError"]

\* `/logos/${folder}/${prefix}_${variant}.webp`
LogoPath(folder, prefix, variant) ==
  [path |-> <<"/logos/", folder, "/", prefix, "_", variant, ".webp">>]

\* make and model are optional strings; the code tests them by truthiness
\* only, so undefined and '' are both the empty tuple.
getCameraLogoPath(make, model, isDark) ==
  IF make = <<>> THEN Null
  ELSE
    LET normalizedMake == normalize(make)
        normalizedModel == IF model # <<>> THEN normalize(model) ELSE <<>>
        variant == IF isDark THEN "white" ELSE "black"
        own == {i \in DOMAIN CAMERA_BRANDS : CAMERA_BRANDS[i].make = normalizedMake}
    IN IF own = {}
       THEN IF normalizedMake \in ObjectPrototypeKeys
            THEN \* brand is an inherited object without folder, models, brandLogo
                 IF normalizedModel # <<>>
                 THEN Throws
                 ELSE LogoPath("undefined", "undefined", variant)
            ELSE Null
       ELSE
         LET brand == CAMERA_BRANDS[CHOOSE i \in own : TRUE]
             exact == {i \in DOMAIN brand.models : brand.models[i][1] = normalizedModel}
             partial == {i \in DOMAIN brand.models :
                           \/ includes(normalizedModel, brand.models[i][1])
                           \/ includes(brand.models[i][1], normalizedModel)}
             first(S) == CHOOSE i \in S : \A j \in S : i <= j
         IN IF normalizedModel # <<>> /\ exact # {}
            THEN LogoPath(brand.folder, brand.models[first(exact)][2], variant)
            ELSE IF normalizedModel # <<>> /\ normalizedModel \in ObjectPrototypeKeys
            THEN \* brand.models[normalizedModel] is an inherited, truthy member
                 LogoPath(brand.folder, "inherited", variant)
            ELSE IF /\ normalizedModel # <<>>
                    /\ normalizedMake = <<"a", "p", "p", "l", "e">>
                    /\ includes(normalizedModel, <<"i", "p", "h", "o", "n", "e">>)
            THEN LogoPath(brand.folder, "iphone", variant)
            ELSE IF normalizedModel # <<>> /\ partial # {}
            THEN LogoPath(brand.folder, brand.models[first(partial)][2], variant)
            ELSE LogoPath(brand.folder, brand.brandLogo, variant)

(***************************************************************************)
(* EXIF formatting (lib/utils.ts formatDecimal, FrameCanvas.tsx).          *)
(* A number is a count of thousandths; a formatted number is its integer   *)
(* part and the tuple of its decimal digits; a formatted field is the      *)
(* number between the text before it and the text after it.                *)
(***************************************************************************)
MilliScale == 1000

RECURSIVE StripZeros(_)
StripZeros(digits) ==
  IF digits # <<>> /\ digits[Len(digits)] = 0
  THEN StripZeros(SubSeq(digits, 1, Len(digits) - 1))
  ELSE digits

\* value.toString()
NumberToString(value) ==
  LET f == value % MilliScale
  IN [int |-> value \div MilliScale,
      frac |-> StripZeros(<<f \div 100, (f \div 10) % 10, f % 10>>)]

\* value.toFixed(1) for a value that is not half-way between two tenths
\* (which way such a value goes depends on its binary expansion).
toFixed1(value) ==
  LET tenths == (value + 50) \div 100
  IN [int |-> tenths \div 10, frac |-> <<tenths % 10>>]

formatDecimal(value) ==
  LET decimalStr == NumberToString(value)
  IN IF decimalStr.frac # <<>> /\ Len(decimalStr.frac) > 1
     THEN toFixed1(value)
     ELSE decimalStr

\* !value for an optional number: undefined, or 0.
Falsy(obj, key) == obj = Null \/ ~Has(obj, key) \/ obj[key] = 0

formatFocalLength(exif) ==
  IF Falsy(exif, "focalLength") THEN Null
  ELSE [before |-> "", number |-> formatDecimal(exif.focalLength), after |-> "mm"]

\* Math.round(1 / shutterSpeed), as a formatted number
RoundedReciprocal(value) ==
  [int |-> (2 * MilliScale + value) \div (2 * value), frac |-> <<>>]

\* formatShutterSpeed with the unit after the fraction too.
formatShutterSpeed_unitAfterFraction(exif) ==
  IF Falsy(exif, "shutterSpeed") THEN Null
  ELSE IF exif.shutterSpeed >= MilliScale
       THEN [before |-> "", number |-> NumberToString(exif.shutterSpeed), after |-> "s"]
       ELSE [before |-> "1/", number |-> RoundedReciprocal(exif.shutterSpeed),
             after |-> "s"]

formatShutterSpeed(exif) ==
  IF Falsy(exif, "shutterSpeed") THEN Null
  ELSE IF exif.shutterSpeed >= MilliScale
       THEN [before |-> "", number |-> NumberToString(exif.shutterSpeed), after |-> "s"]
       ELSE [before |-> "1/", number |-> RoundedReciprocal(exif.shutterSpeed),
             after |-> ""]

formatAperture(exif) ==
  IF Falsy(exif, "aperture") THEN Null
  ELSE [before |-> "f/", number |-> formatDecimal(exif.aperture), after |-> ""]

formatISO(exif) ==
  IF Falsy(exif, "iso") THEN Null
  ELSE [before |-> "ISO", number |-> NumberToString(exif.iso), after |-> ""]

\* parts.join(separator): the fields, each but the last followed by the
\* separator.
Join(parts, separator) ==
  [i \in DOMAIN parts |->
     [field |-> parts[i], then |-> IF i < Len(parts) THEN separator ELSE ""]]

formatExifString(exif) ==
  IF exif = Null THEN Null
  ELSE LET all == <<formatFocalLength(exif), formatAperture(exif),
                    formatShutterSpeed(exif), formatISO(exif)>>
           parts == SelectSeq(all, LAMBDA p : p # Null)
       IN IF Len(parts) > 0
          THEN [text |-> Join(parts, "  ")]
          ELSE Null

(***************************************************************************)
(* The files a user can pick.  width, height and decodes describe what the *)
(* browser's image decoder makes of the file, exif what exifr.parse        *)
(* resolves to: a record of tags, Null for a file without EXIF, Throws for *)
(* a file it cannot read.                                                  *)
(***************************************************************************)
Files ==
  [a |-> [name |-> [stem |-> "a", ext |-> ".jpg"],
          width |-> 1000, height |-> 800, decodes |-> TRUE,
          exif |-> [Make |-> <<"F", "U", "J", "I", "F", "I", "L", "M">>,
                    Model |-> <<"X", "1", "0", "0", "V", "I">>,
                    FocalLength |-> 23000,
                    ISO |-> 400000,
                    ExposureTime |-> 4,
                    FNumber |-> 2800]],
   b |-> [name |-> [stem |-> "b", ext |-> ".png"],
          width |-> 601, height |-> 400, decodes |-> TRUE,
          exif |-> Null],
   c |-> [name |-> [stem |-> "c", ext |-> ".jpg"],
          width |-> 0, height |-> 0, decodes |-> FALSE,
          exif |-> Throws]]

FileIds == DOMAIN Files

\* The settings objects FrameControls hands to onFrameSettingsChange:
\* updateSetting(key, value) spreads the current settings; the uniform
\* slider also removes frameWidths.
ManualChanges(settings) ==
  {Spread(settings, [frameColor |-> c]) : c \in {ColorBlack, ColorWhite}}
    \cup {Spread(settings, [textEnabled |-> b]) : b \in BOOLEAN}
    \cup {Spread(Omit(settings, "frameWidths"), [frameWidth |-> 10])}
    \cup {Spread(settings, [frameWidth |-> 10])}

\* Effect runs of FrameCanvas in one behaviour.
MaxRuns == 3

VARIABLES
  imageFile,         \* useState<File | null>
  imageUrl,          \* useState<string | null>
  frameSettings,     \* useLocalStorage 'frame-studio-settings'
  selectedPreset,    \* useLocalStorage 'frame-studio-preset'
  canvasBackground,  \* useLocalStorage 'frame-studio-background'
  exifData,          \* useState<ExifData | null>
  exportLoading,     \* useState(false)
  effectPending,     \* the FrameCanvas effect is scheduled: a dependency changed
  runs,              \* number of FrameCanvas effect runs so far
  decodes,           \* image decodes in flight, each with the closure of its run
  exifJobs,          \* exifr.parse calls in flight
  canvas,            \* the canvas element: its size and what is drawn on it
  exportJob,         \* the canvas.toBlob call of the last export and its outcome
  downloads,         \* the files handed to the browser as downloads
  log,               \* console.error messages
  geoIn,             \* geometry alone: the image size and the settings
  geoOut,            \* geometry alone: what img.onload computed, input by input
  imageStore,        \* IndexedDB 'frame-studio' / 'images': the record under 'last-image'
  storageOps,        \* the storage operations that have not finished, oldest first
  lastUpload,        \* history: the file of the last handleImageUpload, Null after the image was cleared
  callIn,            \* a function alone: its arguments
  callOut            \* a function alone: its results, call by call

appVars ==
  <<imageFile, imageUrl, frameSettings, selectedPreset, canvasBackground, exifData,
    exportLoading, effectPending, runs, decodes, exifJobs, canvas, exportJob,
    downloads, log>>

geoVars == <<geoIn, geoOut>>

storeVars == <<imageStore, storageOps, lastUpload>>

callVars == <<callIn, callOut>>

vars == <<appVars, geoVars, storeVars, callVars>>

\* The dependencies of the FrameCanvas effect: the input of a composition run.
CurrentInput ==
  [imageUrl |-> imageUrl, frameSettings |-> frameSettings, exifData |-> exifData]

EmptyCanvas == [width |-> 0, height |-> 0, passes |-> <<>>]

IdleExport == [state |-> "idle"]

AppInit ==
  /\ imageFile = Null
  /\ imageUrl = Null
  /\ \/ frameSettings = DEFAULT_SETTINGS /\ selectedPreset = ""
     \/ \E i \in DOMAIN PRESETS :
          /\ frameSettings = Spread(DEFAULT_SETTINGS, PRESETS[i])
          /\ selectedPreset = PRESETS[i].name
  /\ canvasBackground = "grey"
  /\ exifData = Null
  /\ exportLoading = FALSE
  /\ effectPending = FALSE
  /\ runs = 0
  /\ decodes = {}
  /\ exifJobs = {}
  /\ canvas = EmptyCanvas
  /\ exportJob = IdleExport
  /\ downloads = {}
  /\ log = {}

GeoIdle == geoIn = Null /\ geoOut = <<>>

CallIdle == callIn = Null /\ callOut = <<>>

\* The export dialog is modal while exportLoading: no control can be used.
\* A handler that changes a dependency of the effect runs after the effect
\* of the previous render.
CanInteract == ~exportLoading /\ ~effectPending

CanRender == ~effectPending /\ runs < MaxRuns

(***************************************************************************)
(* lib/storage.ts: the image store.  Every operation opens the database    *)
(* and then makes one request in a transaction of its own.  Open requests  *)
(* are served in the order they were made and transactions on the one      *)
(* object store run in the order they were created, so the operations      *)
(* take effect one after the other, oldest first.                          *)
(***************************************************************************)
SaveOp(f) == [op |-> "save", stage |-> "open", file |-> f]

ClearOp == [op |-> "clear", stage |-> "open"]

LoadOp == [op |-> "load", stage |-> "open"]

\* StoredImage for a file: blob and fileName (mimeType and savedAt are never
\* read back).
StoredImage(f) == [blob |-> f, fileName |-> Files[f].name]

\* What the slot can hold when the application starts: nothing, the record
\* of an earlier session, or a record without blob.
StoredRecords ==
  {Null} \cup {StoredImage(f) : f \in FileIds}
         \cup {[fileName |-> Files[f].name] : f \in {"a"}}

\* The slot is empty and no storage operation is under way.
StoreIdle == imageStore = Null /\ storageOps = <<>> /\ lastUpload = Null

\* The mount effect has called loadStoredImage on a first visit: the slot
\* is empty.
StoreFirstVisit == imageStore = Null /\ storageOps = <<LoadOp>> /\ lastUpload = Null

\* The mount effect has called loadStoredImage; the slot holds what an
\* earlier session left.
StoreMounted == imageStore \in StoredRecords /\ storageOps = <<LoadOp>> /\ lastUpload = Null

\* The operation that is served next, in the given stage.
Serving(op, stage) ==
  /\ storageOps # <<>>
  /\ Head(storageOps).op = op
  /\ Head(storageOps).stage = stage

\* What the caller of an operation does when openDatabase rejects.
OpenFailureLog(op) ==
  CASE op = "save" -> "Failed to save image to storage:"
    [] op = "load" -> "Error loading image from storage"
    [] op = "clear" -> "Error clearing image from storage"

\* openDatabase: request.onsuccess or request.onerror of indexedDB.open.
openDatabase(ok) ==
  /\ storageOps # <<>>
  /\ Head(storageOps).stage = "open"
  /\ IF ok
     THEN /\ storageOps' = <<[Head(storageOps) EXCEPT !.stage = "request"]>>
                             \o Tail(storageOps)
          /\ UNCHANGED log
     ELSE /\ storageOps' = Tail(storageOps)
          /\ log' = log \cup {OpenFailureLog(Head(storageOps).op)}
  /\ UNCHANGED <<callVars, geoVars, imageStore, lastUpload>>
  /\ UNCHANGED <<imageFile, imageUrl, frameSettings, selectedPreset, canvasBackground,
                 exifData, exportLoading, effectPending, runs, decodes, exifJobs,
                 canvas, exportJob, downloads>>

\* saveImageToStorage with store.add in place of store.put, the failure on
\* an occupied slot not reported.
saveImageToStorage_add(ok) ==
  /\ Serving("save", "request")
  /\ storageOps' = Tail(storageOps)
  /\ IF ok /\ imageStore = Null
     THEN /\ imageStore' = StoredImage(Head(storageOps).file)
          /\ UNCHANGED log
     ELSE IF ok
     THEN UNCHANGED <<imageStore, log>>
     ELSE /\ log' = log \cup {"Failed to save image to storage:"}
          /\ UNCHANGED imageStore
  /\ UNCHANGED <<callVars, geoVars, lastUpload>>
  /\ UNCHANGED <<imageFile, imageUrl, frameSettings, selectedPreset, canvasBackground,
                 exifData, exportLoading, effectPending, runs, decodes, exifJobs,
                 canvas, exportJob, downloads>>

\* saveImageToStorage: store.put(storedImage, IMAGE_KEY) succeeds or fails;
\* handleImageUpload catches the rejection.
saveImageToStorage(ok) ==
  /\ Serving("save", "request")
  /\ storageOps' = Tail(storageOps)
  /\ IF ok
     THEN /\ imageStore' = StoredImage(Head(storageOps).file)
          /\ UNCHANGED log
     ELSE /\ log' = log \cup {"Failed to save image to storage:"}
          /\ UNCHANGED imageStore
  /\ UNCHANGED <<callVars, geoVars, lastUpload>>
  /\ UNCHANGED <<imageFile, imageUrl, frameSettings, selectedPreset, canvasBackground,
                 exifData, exportLoading, effectPending, runs, decodes, exifJobs,
                 canvas, exportJob, downloads>>

\* clearImageFromStorage: store.delete(IMAGE_KEY) succeeds or fails.  The
\* promise of the request is returned without await, so its rejection
\* passes the catch of clearImageFromStorage and no caller catches it.
clearImageFromStorage(ok) ==
  /\ Serving("clear", "request")
  /\ storageOps' = Tail(storageOps)
  /\ IF ok
     THEN /\ imageStore' = Null
          /\ UNCHANGED log
     ELSE /\ log' = log \cup {"Uncaught (in promise) Failed to clear image from IndexedDB"}
          /\ UNCHANGED imageStore
  /\ UNCHANGED <<callVars, geoVars, lastUpload>>
  /\ UNCHANGED <<imageFile, imageUrl, frameSettings, selectedPreset, canvasBackground,
                 exifData, exportLoading, effectPending, runs, decodes, exifJobs,
                 canvas, exportJob, downloads>>

\* loadImageFromStorage and the rest of loadStoredImage: store.get(IMAGE_KEY)
\* succeeds, with a record that has a blob or with anything else, or fails;
\* loadStoredImage catches the rejection and clears the slot.
loadImageFromStorage(ok) ==
  /\ Serving("load", "request")
  /\ IF ok /\ imageStore # Null /\ Has(imageStore, "blob")
     THEN /\ ~effectPending /\ runs < MaxRuns
          /\ imageFile' = [id |-> imageStore.blob, name |-> imageStore.fileName]
          /\ imageUrl' = [blob |-> imageStore.blob]
          /\ exifJobs' = exifJobs \cup {[file |-> imageStore.blob, seq |-> runs]}
          /\ effectPending' = TRUE
          /\ storageOps' = Tail(storageOps)
          /\ UNCHANGED log
     ELSE IF ok
     THEN /\ storageOps' = Tail(storageOps)
          /\ UNCHANGED <<imageFile, imageUrl, exifJobs, effectPending, log>>
     ELSE /\ log' = log \cup {"Failed to load stored image:"}
          /\ storageOps' = Append(Tail(storageOps), ClearOp)
          /\ UNCHANGED <<imageFile, imageUrl, exifJobs, effectPending>>
  /\ UNCHANGED <<callVars, geoVars, imageStore, lastUpload>>
  /\ UNCHANGED <<frameSettings, selectedPreset, canvasBackground, exifData,
                 exportLoading, runs, decodes, canvas, exportJob, downloads>>

(***************************************************************************)
(* routes/index.tsx: handlers.                                             *)
(***************************************************************************)
handleImageUpload(f) ==
  /\ CanInteract /\ runs < MaxRuns
  /\ imageFile' = [id |-> f, name |-> Files[f].name]
  /\ imageUrl' = [blob |-> f]
  /\ exifJobs' = exifJobs \cup {[file |-> f, seq |-> runs]}
  /\ effectPending' = TRUE
  /\ storageOps' = Append(storageOps, SaveOp(f))
  /\ lastUpload' = [file |-> f]
  /\ UNCHANGED <<callVars, geoVars, imageStore>>
  /\ UNCHANGED <<frameSettings, selectedPreset, canvasBackground, exifData,
                 exportLoading, runs, decodes, canvas, exportJob, downloads, log>>

\* extractExifData after await exifr.parse(file, ...)
extractExifData(job) ==
  /\ job \in exifJobs
  /\ CanRender
  /\ exifJobs' = exifJobs \ {job}
  /\ LET exif == Files[job.file].exif
     IN IF exif = Throws
        THEN /\ log' = log \cup {"Error extracting EXIF data:"}
             /\ exifData' = Null
             /\ effectPending' = (exifData # Null)
        ELSE IF exif # Null
        THEN /\ exifData' = [make |-> exif.Make,
                             model |-> exif.Model,
                             focalLength |-> exif.FocalLength,
                             iso |-> exif.ISO,
                             shutterSpeed |-> exif.ExposureTime,
                             aperture |-> exif.FNumber]
             /\ effectPending' = TRUE
             /\ UNCHANGED log
        ELSE /\ exifData' = Null
             /\ effectPending' = (exifData # Null)
             /\ UNCHANGED log
  /\ UNCHANGED <<callVars, geoVars, storeVars>>
  /\ UNCHANGED <<imageFile, imageUrl, frameSettings, selectedPreset, canvasBackground,
                 exportLoading, runs, decodes, canvas, exportJob, downloads>>

\* handlePresetSelect spreading the preset over the current settings.
handlePresetSelect_overCurrent(preset) ==
  /\ CanInteract /\ runs < MaxRuns
  /\ selectedPreset' = preset.name
  /\ frameSettings' = Spread(frameSettings, preset)
  /\ effectPending' = TRUE
  /\ UNCHANGED <<callVars, geoVars, storeVars>>
  /\ UNCHANGED <<imageFile, imageUrl, canvasBackground, exifData, exportLoading,
                 runs, decodes, exifJobs, canvas, exportJob, downloads, log>>

handlePresetSelect(preset) ==
  /\ CanInteract /\ runs < MaxRuns
  /\ selectedPreset' = preset.name
  /\ frameSettings' = Spread(DEFAULT_SETTINGS, preset)
  /\ effectPending' = TRUE
  /\ UNCHANGED <<callVars, geoVars, storeVars>>
  /\ UNCHANGED <<imageFile, imageUrl, canvasBackground, exifData, exportLoading,
                 runs, decodes, exifJobs, canvas, exportJob, downloads, log>>

\* handleFrameSettingsChange without setSelectedPreset('').
handleFrameSettingsChange_presetKept(settings) ==
  /\ CanInteract /\ runs < MaxRuns
  /\ frameSettings' = settings
  /\ effectPending' = TRUE
  /\ UNCHANGED <<callVars, geoVars, storeVars>>
  /\ UNCHANGED <<imageFile, imageUrl, selectedPreset, canvasBackground, exifData,
                 exportLoading, runs, decodes, exifJobs, canvas, exportJob, downloads,
                 log>>

handleFrameSettingsChange(settings) ==
  /\ CanInteract /\ runs < MaxRuns
  /\ frameSettings' = settings
  /\ selectedPreset' = ""
  /\ effectPending' = TRUE
  /\ UNCHANGED <<callVars, geoVars, storeVars>>
  /\ UNCHANGED <<imageFile, imageUrl, canvasBackground, exifData, exportLoading,
                 runs, decodes, exifJobs, canvas, exportJob, downloads, log>>

\* handleReset without the call of clearImageFromStorage.
handleReset_storeKept(clearImage) ==
  /\ CanInteract /\ runs < MaxRuns
  /\ frameSettings' = DEFAULT_SETTINGS
  /\ canvasBackground' = "grey"
  /\ selectedPreset' = ""
  /\ IF clearImage
     THEN imageFile' = Null /\ imageUrl' = Null /\ exifData' = Null
     ELSE UNCHANGED <<imageFile, imageUrl, exifData>>
  /\ effectPending' = TRUE
  /\ lastUpload' = IF clearImage THEN Null ELSE lastUpload
  /\ UNCHANGED <<callVars, geoVars, imageStore, storageOps>>
  /\ UNCHANGED <<exportLoading, runs, decodes, exifJobs, canvas, exportJob,
                 downloads, log>>

handleReset(clearImage) ==
  /\ CanInteract /\ runs < MaxRuns
  /\ frameSettings' = DEFAULT_SETTINGS
  /\ canvasBackground' = "grey"
  /\ selectedPreset' = ""
  /\ IF clearImage
     THEN imageFile' = Null /\ imageUrl' = Null /\ exifData' = Null
     ELSE UNCHANGED <<imageFile, imageUrl, exifData>>
  /\ effectPending' = TRUE
  /\ storageOps' = IF clearImage THEN Append(storageOps, ClearOp) ELSE storageOps
  /\ lastUpload' = IF clearImage THEN Null ELSE lastUpload
  /\ UNCHANGED <<callVars, geoVars, imageStore>>
  /\ UNCHANGED <<exportLoading, runs, decodes, exifJobs, canvas, exportJob,
                 downloads, log>>

setCanvasBackground(background) ==
  /\ CanInteract
  /\ canvasBackground' = background
  /\ UNCHANGED <<callVars, geoVars, storeVars>>
  /\ UNCHANGED <<imageFile, imageUrl, frameSettings, selectedPreset, exifData,
                 exportLoading, effectPending, runs, decodes, exifJobs, canvas,
                 exportJob, downloads, log>>

\* originalName.replace(/\.[^/.]+$/, '') + '-framed.jpg'
exportFilename(file) == [stem |-> file.name.stem, ext |-> "-framed.jpg"]

handleExport ==
  /\ CanInteract
  /\ imageFile # Null
  /\ exportLoading' = TRUE
  /\ exportJob' = [state |-> "encoding",
                   width |-> canvas.width,
                   height |-> canvas.height,
                   filename |-> exportFilename(imageFile)]
  /\ UNCHANGED <<callVars, geoVars, storeVars>>
  /\ UNCHANGED <<imageFile, imageUrl, frameSettings, selectedPreset, canvasBackground,
                 exifData, effectPending, runs, decodes, exifJobs, canvas, downloads,
                 log>>

\* The callback of canvas.toBlob returning without setExportLoading(false)
\* when there is no blob.
toBlobCallback_loadingKept(blob) ==
  /\ exportJob.state = "encoding"
  /\ blob => (exportJob.width > 0 /\ exportJob.height > 0)
  /\ IF ~blob
     THEN /\ exportJob' = [exportJob EXCEPT !.state = "nofile"]
          /\ UNCHANGED <<downloads, exportLoading>>
     ELSE /\ downloads' = downloads \cup {exportJob.filename}
          /\ exportJob' = [exportJob EXCEPT !.state = "timer"]
          /\ UNCHANGED exportLoading
  /\ UNCHANGED <<callVars, geoVars, storeVars>>
  /\ UNCHANGED <<imageFile, imageUrl, frameSettings, selectedPreset, canvasBackground,
                 exifData, effectPending, runs, decodes, exifJobs, canvas, log>>

\* The callback of canvas.toBlob: a canvas without pixels gives no blob, and
\* the encoder may give none for any canvas.
toBlobCallback(blob) ==
  /\ exportJob.state = "encoding"
  /\ blob => (exportJob.width > 0 /\ exportJob.height > 0)
  /\ IF ~blob
     THEN /\ exportLoading' = FALSE
          /\ exportJob' = [exportJob EXCEPT !.state = "nofile"]
          /\ UNCHANGED downloads
     ELSE /\ downloads' = downloads \cup {exportJob.filename}
          /\ exportJob' = [exportJob EXCEPT !.state = "timer"]
          /\ UNCHANGED exportLoading
  /\ UNCHANGED <<callVars, geoVars, storeVars>>
  /\ UNCHANGED <<imageFile, imageUrl, frameSettings, selectedPreset, canvasBackground,
                 exifData, effectPending, runs, decodes, exifJobs, canvas, log>>

\* setTimeout(() => setExportLoading(false), 500)
exportTimeout ==
  /\ exportJob.state = "timer"
  /\ exportLoading' = FALSE
  /\ exportJob' = [exportJob EXCEPT !.state = "done"]
  /\ UNCHANGED <<callVars, geoVars, storeVars>>
  /\ UNCHANGED <<imageFile, imageUrl, frameSettings, selectedPreset, canvasBackground,
                 exifData, effectPending, runs, decodes, exifJobs, canvas, downloads,
                 log>>

(***************************************************************************)
(* FrameCanvas.tsx: the effect and its two decode callbacks.               *)
(***************************************************************************)
\* obj?.key for an optional string, tested by truthiness only.
OptString(obj, key) == IF obj # Null /\ Has(obj, key) THEN obj[key] ELSE <<>>

\* obj.key ?? false
Flag(obj, key) == Has(obj, key) /\ obj[key]

\* What img.onload computes for the run's image and settings.
Geometry(input) ==
  computeGeometry(Files[input.imageUrl.blob].width,
                  Files[input.imageUrl.blob].height,
                  input.frameSettings)

effectiveTextColor(settings) ==
  IF Flag(settings, "contrastAwareText")
  THEN getContrastTextColor(settings.frameColor)
  ELSE settings.textColor

\* clearRect, fillRect with frameColor, drawImage of the photo: one full pass
\* over the rectangle (0, 0, canvasWidth, canvasHeight) of the run.
BasePass(input) ==
  LET g == Geometry(input)
  IN [width |-> g.canvasWidth,
      height |-> g.canvasHeight,
      fill |-> input.frameSettings.frameColor,
      photo |-> input.imageUrl.blob,
      imageX |-> g.leftPx,
      imageY |-> g.topPx,
      overlay |-> Null]

\* Vertical positions of the overlay are in 1/RowScale of the unit of the
\* pixel lengths, so that bottomPx * 0.15, * 0.22, * 0.22 * 1.3 ... are whole.
RowScale == 1000

\* The overlay logoImg.onload draws after the base pass, with the vertical
\* position and size of each of its rows.
Overlay(input, logoPath) ==
  LET settings == input.frameSettings
      g == Geometry(input)
      color == effectiveTextColor(settings)
      exifString == IF Flag(settings, "showExifData")
                    THEN formatExifString(input.exifData)
                    ELSE Null
      logoHeight == g.bottomPx * 220
      shotOnTextSize == g.bottomPx * 286
      bottomBorderTop == (g.canvasHeight - g.bottomPx) * RowScale
      mainRowTopY == bottomBorderTop + g.bottomPx * 150
      mainRowBottomY == mainRowTopY + logoHeight
      exifTextSize == g.bottomPx * 176
      exifRowSpacing == g.bottomPx * 66
  IN [shotOn |-> IF Flag(settings, "showShotOnText")
                 THEN [text |-> "Shot on", color |-> color]
                 ELSE Null,
      logo |-> logoPath,
      exif |-> IF exifString # Null
               THEN [text |-> exifString.text, color |-> color]
               ELSE Null,
      logoY |-> mainRowTopY,
      logoHeight |-> logoHeight,
      mainRowBottomY |-> mainRowBottomY,
      shotOnTextSize |-> shotOnTextSize,
      exifY |-> mainRowBottomY + exifRowSpacing,
      exifTextSize |-> exifTextSize]

LogoPass(input, logoPath) ==
  [BasePass(input) EXCEPT !.overlay = Overlay(input, logoPath)]

\* RunLogoPath without the test of textEnabled.
RunLogoPath_textIgnored(input) ==
  getCameraLogoPath(OptString(input.exifData, "make"),
                    OptString(input.exifData, "model"),
                    isDarkBackground(input.frameSettings.frameColor))

\* The logo the run asks for, Null when it asks for none.
RunLogoPath(input) ==
  IF Flag(input.frameSettings, "textEnabled")
  THEN getCameraLogoPath(OptString(input.exifData, "make"),
                         OptString(input.exifData, "model"),
                         isDarkBackground(input.frameSettings.frameColor))
  ELSE Null

\* useEffect(() => {...}, [imageUrl, frameSettings, exifData, ref])
FrameCanvasEffect ==
  /\ effectPending
  /\ effectPending' = FALSE
  /\ runs' = runs + 1
  /\ IF imageUrl = Null
     THEN /\ canvas' = EmptyCanvas
          /\ UNCHANGED decodes
     ELSE /\ decodes' = decodes \cup
                          {[run |-> runs + 1, kind |-> "photo", input |-> CurrentInput]}
          /\ UNCHANGED canvas
  /\ UNCHANGED <<callVars, geoVars, storeVars>>
  /\ UNCHANGED <<imageFile, imageUrl, frameSettings, selectedPreset, canvasBackground,
                 exifData, exportLoading, exifJobs, exportJob, downloads, log>>

\* img.onload
imgOnload(d) ==
  /\ d \in decodes
  /\ d.kind = "photo"
  /\ Files[d.input.imageUrl.blob].decodes
  /\ LET g == Geometry(d.input)
         logoPath == RunLogoPath(d.input)
     IN /\ canvas' = [width |-> CanvasAttr(g.canvasWidth),
                      height |-> CanvasAttr(g.canvasHeight),
                      passes |-> <<BasePass(d.input)>>]
        /\ decodes' = (decodes \ {d}) \cup
                        (IF logoPath # Null /\ logoPath # Throws
                         THEN {[run |-> d.run, kind |-> "logo", input |-> d.input,
                                logoPath |-> logoPath]}
                         ELSE {})
  /\ UNCHANGED <<callVars, geoVars, storeVars>>
  /\ UNCHANGED <<imageFile, imageUrl, frameSettings, selectedPreset, canvasBackground,
                 exifData, exportLoading, effectPending, runs, exifJobs, exportJob,
                 downloads, log>>

\* The photo cannot be decoded: img has no onerror, nothing runs.
imgError(d) ==
  /\ d \in decodes
  /\ d.kind = "photo"
  /\ ~Files[d.input.imageUrl.blob].decodes
  /\ decodes' = decodes \ {d}
  /\ UNCHANGED <<callVars, geoVars, storeVars>>
  /\ UNCHANGED <<imageFile, imageUrl, frameSettings, selectedPreset, canvasBackground,
                 exifData, exportLoading, effectPending, runs, exifJobs, canvas,
                 exportJob, downloads, log>>

\* A pass over the rectangle (0, 0, pass.width, pass.height) of a canvas:
\* nothing on a canvas without pixels, everything anew when the rectangle
\* covers the canvas, and on top of what is there otherwise.
Draw(cv, pass) ==
  IF cv.width = 0 \/ cv.height = 0 THEN cv
  ELSE IF pass.width >= cv.width * PxScale /\ pass.height >= cv.height * PxScale
       THEN [cv EXCEPT !.passes = <<pass>>]
       ELSE [cv EXCEPT !.passes = Append(@, pass)]

\* logoImg.onload
logoImgOnload(d) ==
  /\ d \in decodes
  /\ d.kind = "logo"
  /\ canvas' = Draw(canvas, LogoPass(d.input, d.logoPath))
  /\ decodes' = decodes \ {d}
  /\ UNCHANGED <<callVars, geoVars, storeVars>>
  /\ UNCHANGED <<imageFile, imageUrl, frameSettings, selectedPreset, canvasBackground,
                 exifData, exportLoading, effectPending, runs, exifJobs, exportJob,
                 downloads, log>>

\* The logo cannot be loaded: logoImg has no onerror, nothing runs.
logoImgError(d) ==
  /\ d \in decodes
  /\ d.kind = "logo"
  /\ decodes' = decodes \ {d}
  /\ UNCHANGED <<callVars, geoVars, storeVars>>
  /\ UNCHANGED <<imageFile, imageUrl, frameSettings, selectedPreset, canvasBackground,
                 exifData, exportLoading, effectPending, runs, exifJobs, canvas,
                 exportJob, downloads, log>>

(***************************************************************************)
(* The application on a first visit.  The requests to the image store stay *)
(* outstanding here (IndexedDB answers after any delay), so every          *)
(* behaviour is one of the program; StoreSpec below serves them.           *)
(***************************************************************************)
Init == AppInit /\ GeoIdle /\ CallIdle /\ StoreFirstVisit

AppNext ==
  \/ \E f \in FileIds : handleImageUpload(f)
  \/ \E job \in exifJobs : extractExifData(job)
  \/ \E preset \in PresetSet : handlePresetSelect(preset)
  \/ \E settings \in ManualChanges(frameSettings) : handleFrameSettingsChange(settings)
  \/ \E clearImage \in BOOLEAN : handleReset(clearImage)
  \/ \E background \in {"white", "grey", "black"} : setCanvasBackground(background)
  \/ handleExport
  \/ \E blob \in BOOLEAN : toBlobCallback(blob)
  \/ exportTimeout
  \/ FrameCanvasEffect
  \/ \E d \in decodes : imgOnload(d)
  \/ \E d \in decodes : imgError(d)
  \/ \E d \in decodes : logoImgOnload(d)
  \/ \E d \in decodes : logoImgError(d)

Next == AppNext

Spec == Init /\ [][Next]_vars

(***************************************************************************)
(* Settings, images and composition without the export and the page        *)
(* background: every behaviour is a behaviour of Spec.                     *)
(***************************************************************************)
ComposeNext ==
  \/ \E f \in FileIds : handleImageUpload(f)
  \/ \E job \in exifJobs : extractExifData(job)
  \/ \E preset \in PresetSet : handlePresetSelect(preset)
  \/ \E settings \in ManualChanges(frameSettings) : handleFrameSettingsChange(settings)
  \/ \E clearImage \in BOOLEAN : handleReset(clearImage)
  \/ FrameCanvasEffect
  \/ \E d \in decodes : imgOnload(d)
  \/ \E d \in decodes : imgError(d)
  \/ \E d \in decodes : logoImgOnload(d)
  \/ \E d \in decodes : logoImgError(d)

ComposeSpec == Init /\ [][ComposeNext]_vars

(***************************************************************************)
(* The image store: the uploads, the reset, the load on mount and the      *)
(* storage operations, started with any record an earlier session left.    *)
(***************************************************************************)
StoreInit == AppInit /\ GeoIdle /\ CallIdle /\ StoreMounted

StoreNext ==
  \/ \E f \in FileIds : handleImageUpload(f)
  \/ \E clearImage \in BOOLEAN : handleReset(clearImage)
  \/ FrameCanvasEffect
  \/ \E ok \in BOOLEAN : openDatabase(ok)
  \/ \E ok \in BOOLEAN : saveImageToStorage(ok)
  \/ \E ok \in BOOLEAN : clearImageFromStorage(ok)
  \/ \E ok \in BOOLEAN : loadImageFromStorage(ok)

StoreSpec == StoreInit /\ [][StoreNext]_vars

(***************************************************************************)
(* The export: uploads, the composition of the photo and the export, with  *)
(* the callback of canvas.toBlob and the 500 ms timer firing once they are *)
(* due.                                                                    *)
(***************************************************************************)
ExportNext ==
  \/ \E f \in FileIds : handleImageUpload(f)
  \/ \E clearImage \in BOOLEAN : handleReset(clearImage)
  \/ FrameCanvasEffect
  \/ \E d \in decodes : imgOnload(d)
  \/ \E d \in decodes : imgError(d)
  \/ handleExport
  \/ \E blob \in BOOLEAN : toBlobCallback(blob)
  \/ exportTimeout

ExportSpec ==
  /\ Init
  /\ [][ExportNext]_vars
  /\ WF_vars(\E blob \in BOOLEAN : toBlobCallback(blob))
  /\ WF_vars(exportTimeout)

(***************************************************************************)
(* The reset on a return visit: the slot holds the photo of an earlier     *)
(* session; uploads, EXIF extraction, the page background, the reset and   *)
(* the storage operations.                                                 *)
(***************************************************************************)
ResetInit ==
  /\ AppInit /\ GeoIdle /\ CallIdle
  /\ imageStore = StoredImage("a")
  /\ storageOps = <<LoadOp>>
  /\ lastUpload = Null

\* The photos uploaded here: one with EXIF and one without.
ResetFiles == {"a", "b"}

ResetNext ==
  \/ \E f \in ResetFiles : handleImageUpload(f)
  \/ \E job \in exifJobs : extractExifData(job)
  \/ \E clearImage \in BOOLEAN : handleReset(clearImage)
  \/ \E background \in {"white", "grey", "black"} : setCanvasBackground(background)
  \/ FrameCanvasEffect
  \/ \E ok \in BOOLEAN : openDatabase(ok)
  \/ \E ok \in BOOLEAN : saveImageToStorage(ok)
  \/ \E ok \in BOOLEAN : clearImageFromStorage(ok)
  \/ \E ok \in BOOLEAN : loadImageFromStorage(ok)

ResetSpec == ResetInit /\ [][ResetNext]_vars

(***************************************************************************)
(* The geometry of img.onload alone, over a range of image sizes and       *)
(* settings.                                                               *)
(***************************************************************************)
MaxGeoSide == 1

MaxGeoPct == 1

MaxGeoEdits == 1

GeoWidths == (1..MaxGeoSide) \cup {1000}

GeoHeights == (1..MaxGeoSide) \cup {800}

\* The slider gives whole percents from 0 to 50.
GeoFramePcts == (0..MaxGeoPct) \cup {10, 50}

GeoSidePcts == (0..MaxGeoPct) \cup {2, 12}

GeoSettings ==
  {Spread(DEFAULT_SETTINGS, [frameWidth |-> p]) : p \in GeoFramePcts}
    \cup {Spread(DEFAULT_SETTINGS, [frameWidth |-> p, frameWidths |-> w]) :
            p \in GeoFramePcts,
            w \in [top : GeoSidePcts, right : GeoSidePcts,
                   bottom : GeoSidePcts, left : GeoSidePcts]}

\* What img.onload computes and sets on the canvas for geoIn.
GeoMeasure(in) ==
  LET g == computeGeometry(in.imageWidth, in.imageHeight, in.settings)
  IN [in |-> in,
      g |-> g,
      width |-> CanvasAttr(g.canvasWidth),
      height |-> CanvasAttr(g.canvasHeight)]

GeoInit ==
  /\ AppInit
  /\ StoreIdle
  /\ CallIdle
  /\ selectedPreset = ""
  /\ geoIn \in [imageWidth : GeoWidths, imageHeight : GeoHeights, settings : GeoSettings]
  /\ geoOut = <<>>

\* img.onload for the first settings
GeoLoad ==
  /\ geoOut = <<>>
  /\ geoOut' = <<GeoMeasure(geoIn)>>
  /\ UNCHANGED geoIn
  /\ UNCHANGED <<appVars, storeVars, callVars>>

\* updateSetting('frameWidth', percent), then img.onload of the next run
GeoSetFrameWidth(percent) ==
  /\ geoOut # <<>>
  /\ Len(geoOut) <= MaxGeoEdits
  /\ geoIn' = [geoIn EXCEPT !.settings = Spread(@, [frameWidth |-> percent])]
  /\ geoOut' = Append(geoOut, GeoMeasure(geoIn'))
  /\ UNCHANGED <<appVars, storeVars, callVars>>

GeoNext ==
  \/ GeoLoad
  \/ \E percent \in GeoFramePcts : GeoSetFrameWidth(percent)

GeoSpec == GeoInit /\ [][GeoNext]_vars

(***************************************************************************)
(* getCameraLogoPath alone, over a range of EXIF makes and models.         *)
(***************************************************************************)
\* EXIF makes: absent or empty, brands of the table in several spellings,
\* other makes, and names every object inherits.
LogoMakes ==
  { <<>>,
    <<"F", "U", "J", "I", "F", "I", "L", "M">>,
    <<" ", "F", "u", "j", "i", "f", "i", "l", "m", " ", " ">>,
    <<"A", "p", "p", "l", "e">>,
    <<"N", "I", "K", "O", "N">>,
    <<"F", "u", "j", "i", " ", "f", "i", "l", "m">>,
    <<" ">>,
    <<"c", "o", "n", "s", "t", "r", "u", "c", "t", "o", "r">>,
    <<"_", "_", "p", "r", "o", "t", "o", "_", "_">> }

\* EXIF models: absent or empty, models of the table, models that contain a
\* key of the table or are contained in one, other models, and a name every
\* object inherits.
LogoModels ==
  { <<>>,
    <<"X", "1", "0", "0", "V", "I">>,
    <<"X", "-", "H", "2", "S">>,
    <<"X", "-", "T", "3", "0", " ", " ", "I", "I">>,
    <<"i", "P", "h", "o", "n", "e", " ", "1", "5", " ", "P", "r", "o">>,
    <<"G", "F", "X", "1", "0", "0">>,
    <<"X", "-", "H", "2", "S", " ", "I", "I">>,
    <<"X", "1", "0", "0">>,
    <<"c", "o", "n", "s", "t", "r", "u", "c", "t", "o", "r">> }

LogoInit ==
  /\ AppInit
  /\ selectedPreset = ""
  /\ GeoIdle
  /\ StoreIdle
  /\ callIn \in [fn : {"getCameraLogoPath"}, make : LogoMakes, model : LogoModels,
                  isDarkBackground : BOOLEAN]
  /\ callOut = <<>>

\* getCameraLogoPath(exifData?.make, exifData?.model, darkBg)
LogoResolve ==
  /\ callIn.fn = "getCameraLogoPath"
  /\ callOut = <<>>
  /\ callOut' = <<getCameraLogoPath(callIn.make, callIn.model, callIn.isDarkBackground)>>
  /\ UNCHANGED callIn
  /\ UNCHANGED <<appVars, geoVars, storeVars>>

LogoNext == LogoResolve

LogoSpec == LogoInit /\ [][LogoNext]_vars

(***************************************************************************)
(* getContrastTextColor alone, over a range of frame colours.              *)
(***************************************************************************)
\* Calls of one function on the same arguments.
MaxCalls == 2

\* The hex digits the frame colours are written with: the ends of the range,
\* the digits around the luminance threshold and an upper-case digit.
ContrastDigits == {"0", "7", "8", "f", "F"}

ContrastColors ==
  { <<"#", r1, r2, g1, g2, b1, b2>> :
      r1 \in ContrastDigits, r2 \in ContrastDigits, g1 \in ContrastDigits,
      g2 \in ContrastDigits, b1 \in ContrastDigits, b2 \in ContrastDigits }

ContrastInit ==
  /\ AppInit
  /\ selectedPreset = ""
  /\ GeoIdle
  /\ StoreIdle
  /\ callIn \in [fn : {"getContrastTextColor"}, backgroundColor : ContrastColors]
  /\ callOut = <<>>

\* getContrastTextColor(frameColor)
ContrastResolve ==
  /\ callIn.fn = "getContrastTextColor"
  /\ Len(callOut) < MaxCalls
  /\ callOut' = Append(callOut, getContrastTextColor(callIn.backgroundColor))
  /\ UNCHANGED callIn
  /\ UNCHANGED <<appVars, geoVars, storeVars>>

ContrastNext == ContrastResolve

ContrastSpec == ContrastInit /\ [][ContrastNext]_vars

(***************************************************************************)
(* The logo variant and the text colour of one frame colour, over the      *)
(* colours the colour picker and the text field beside it give.            *)
(***************************************************************************)
\* The hex digits of these colours: the ends of the range and the digits
\* around the luminance threshold.
OverlayDigits == {"0", "7", "8", "f"}

\* Colours of six digits, as the colour picker gives them, and of three, as
\* the text field accepts them.
OverlayColors ==
  { <<"#", r1, r2, g1, g2, b1, b2>> :
      r1 \in OverlayDigits, r2 \in OverlayDigits, g1 \in OverlayDigits,
      g2 \in OverlayDigits, b1 \in OverlayDigits, b2 \in OverlayDigits }
    \cup { <<"#", r, g, b>> :
             r \in OverlayDigits, g \in OverlayDigits, b \in OverlayDigits }

OverlayInit ==
  /\ AppInit
  /\ selectedPreset = ""
  /\ GeoIdle
  /\ StoreIdle
  /\ callIn \in [fn : {"overlayColors"}, frameColor : OverlayColors]
  /\ callOut = <<>>

\* img.onload with contrastAwareText: getContrastTextColor(frameColor) and
\* isDarkBackground(frameColor)
OverlayResolve ==
  /\ callIn.fn = "overlayColors"
  /\ callOut = <<>>
  /\ callOut' = <<[effectiveTextColor |-> getContrastTextColor(callIn.frameColor),
                   darkBg |-> isDarkBackground(callIn.frameColor)]>>
  /\ UNCHANGED callIn
  /\ UNCHANGED <<appVars, geoVars, storeVars>>

OverlayNext == OverlayResolve

OverlaySpec == OverlayInit /\ [][OverlayNext]_vars

(***************************************************************************)
(* The EXIF formatters alone, over a range of EXIF values (in 1/MilliScale,*)
(* none half-way between two tenths).                                      *)
(***************************************************************************)
\* An optional number: no value, or one value.
Optional(values) == {<<>>} \cup {<<v>> : v \in values}

\* The object with the property when it has a value.
WithProperty(obj, key, optional) ==
  IF optional = <<>> THEN obj ELSE Spread(obj, [k \in {key} |-> optional[1]])

FormatFocalLengths == Optional({0, 35000, 35040, 23500, 50260})

FormatApertures == Optional({2800, 1780, 2960, 8000})

FormatShutterSpeeds == Optional({0, 4, 17, 400, 999, 1000, 2000, 2500})

FormatISOs == Optional({0, 400000})

FormatExifs ==
  { WithProperty(WithProperty(WithProperty(WithProperty(
        [make |-> <<>>], "focalLength", f), "aperture", a), "shutterSpeed", s), "iso", i) :
      f \in FormatFocalLengths, a \in FormatApertures,
      s \in FormatShutterSpeeds, i \in FormatISOs }

FormatInit ==
  /\ AppInit
  /\ selectedPreset = ""
  /\ GeoIdle
  /\ StoreIdle
  /\ callIn \in [fn : {"formatExifString"}, exifData : FormatExifs]
  /\ callOut = <<>>

\* formatExifString(exifData), with what each formatter gave
FormatExif ==
  /\ callIn.fn = "formatExifString"
  /\ callOut = <<>>
  /\ callOut' = <<[focalLength |-> formatFocalLength(callIn.exifData),
                   aperture |-> formatAperture(callIn.exifData),
                   shutterSpeed |-> formatShutterSpeed(callIn.exifData),
                   iso |-> formatISO(callIn.exifData),
                   exifString |-> formatExifString(callIn.exifData)]>>
  /\ UNCHANGED callIn
  /\ UNCHANGED <<appVars, geoVars, storeVars>>

FormatNext == FormatExif

FormatSpec == FormatInit /\ [][FormatNext]_vars

(***************************************************************************)
(* Properties.                                                             *)
(***************************************************************************)
\* The surfaces one composition of the input, run alone, ends in: the empty
\* canvas without an image, else the base composition or, when the run asks
\* for a logo and the logo loads, the composition with the overlay.
Composition(input) ==
  IF input.imageUrl = Null THEN {EmptyCanvas}
  ELSE LET g == Geometry(input)
           logoPath == RunLogoPath(input)
           surface(pass) == [width |-> CanvasAttr(g.canvasWidth),
                             height |-> CanvasAttr(g.canvasHeight),
                             passes |-> <<pass>>]
       IN {surface(BasePass(input))} \cup
            (IF logoPath # Null /\ logoPath # Throws
             THEN {surface(LogoPass(input, logoPath))}
             ELSE {})

\* The photo of the current input can be decoded.
CurrentPhotoDecodes == imageUrl # Null => Files[imageUrl.blob].decodes

\* C1: the compositor was restarted with the current input B while the logo
\* decode of an earlier input A was unresolved, B is composed, and A's logo
\* decode is the only callback left: once it has run, the surface is still a
\* composition of B alone.
C1_StaleLogoKeepsCurrentComposition ==
  [][(/\ ~effectPending
      /\ CurrentPhotoDecodes
      /\ canvas \in Composition(CurrentInput)
      /\ \E d \in decodes : /\ decodes = {d}
                            /\ d.kind = "logo"
                            /\ d.input # CurrentInput
      /\ decodes' = {})
     => canvas' \in Composition(CurrentInput)]_vars

\* C2: a decode completion of a run whose input is no longer the current
\* input neither resizes the canvas nor draws on it.
C2_StaleCompletionDiscarded ==
  [][\A d \in decodes :
       (d.input # CurrentInput /\ d \notin decodes') => canvas' = canvas]_vars

\* C3: when a run starts, no earlier run has a decode callback pending.
C3_OneRunInFlight ==
  [][runs' = runs + 1 => \A d \in decodes' : d.run = runs']_vars

\* The composition of the current inputs has reached Rendered: the effect
\* has run for them, their photo decodes and their run waits for no decode.
RenderedCurrent ==
  /\ imageUrl # Null
  /\ ~effectPending
  /\ Files[imageUrl.blob].decodes
  /\ \A d \in decodes : d.run # runs

\* C4: an export starts only when the composition of the current inputs has
\* reached Rendered.
C4_ExportOnlyWhenRendered ==
  [][(exportJob.state # "encoding" /\ exportJob'.state = "encoding")
     => RenderedCurrent]_vars

\* console.error messages of operations other than the export.
OtherDiagnostics == {"Error extracting EXIF data:"}

\* The failure of an export is reported: App keeps no error state, so the
\* only report there can be is a diagnostic of the export.
ExportFailureReported == log \ OtherDiagnostics # {}

ZeroAreaExport ==
  exportJob.state # "idle" /\ (exportJob.width = 0 \/ exportJob.height = 0)

\* C5: an export of a surface of zero area never gets a blob to download and
\* ends in a reported failure.
C5_ZeroAreaExportFailsExplicitly ==
  ZeroAreaExport =>
    /\ exportJob.state \notin {"timer", "done"}
    /\ exportJob.state = "nofile" => ExportFailureReported

\* C6: an export of a surface with pixels for which the encoder gives no
\* blob ends in a reported failure.
C6_EncoderRefusalReported ==
  (exportJob.state = "nofile" /\ ~ZeroAreaExport) => ExportFailureReported

\* The settings fields no preset has to define.
OptionalOfPreset ==
  {"textEnabled", "showShotOnText", "showExifData", "contrastAwareText", "frameWidth"}

\* C7: after handlePresetSelect(P) every field P defines has P's value, every
\* field P omits has its DEFAULT_SETTINGS value, and frameWidths is absent
\* when P omits it, whatever the settings were before.
C7_PresetOverDefaults ==
  [][\A P \in PresetSet :
       (/\ ~effectPending /\ effectPending'
        /\ selectedPreset' = P.name
        /\ UNCHANGED <<imageFile, imageUrl, exifData, exifJobs>>)
       => /\ \A k \in (DOMAIN P) \ {"name"} :
               Has(frameSettings', k) /\ frameSettings'[k] = P[k]
          /\ \A k \in OptionalOfPreset \ (DOMAIN P) :
               Has(frameSettings', k) /\ frameSettings'[k] = DEFAULT_SETTINGS[k]
          /\ ~Has(P, "frameWidths") => ~Has(frameSettings', "frameWidths")]_vars

\* A preset that omits textEnabled and frameWidths was selected while a
\* composition of earlier settings that had both is still decoding.
C7_Witness ==
  /\ effectPending
  /\ selectedPreset = "Classic White"
  /\ ~frameSettings.textEnabled
  /\ ~Has(frameSettings, "frameWidths")
  /\ \E d \in decodes : /\ d.run = runs
                        /\ d.input.frameSettings.textEnabled
                        /\ Has(d.input.frameSettings, "frameWidths")

\* C8: with frameWidths present, the borders and the canvas are the same for
\* every frameWidth.
C8_FrameWidthsPrecedence ==
  \A i, j \in DOMAIN geoOut :
    (/\ Has(geoOut[i].in.settings, "frameWidths")
     /\ Has(geoOut[j].in.settings, "frameWidths")
     /\ geoOut[i].in.settings.frameWidths = geoOut[j].in.settings.frameWidths
     /\ geoOut[i].in.imageWidth = geoOut[j].in.imageWidth
     /\ geoOut[i].in.imageHeight = geoOut[j].in.imageHeight)
    => /\ geoOut[i].g = geoOut[j].g
       /\ geoOut[i].width = geoOut[j].width
       /\ geoOut[i].height = geoOut[j].height

\* The geometry was computed for frameWidths 2, 2, 12, 2 with frameWidth 10
\* and again with frameWidth 50.
C8_Witness ==
  /\ Len(geoOut) = 2
  /\ Has(geoIn.settings, "frameWidths")
  /\ geoIn.settings.frameWidths = [top |-> 2, right |-> 2, bottom |-> 12, left |-> 2]
  /\ geoOut[1].in.settings.frameWidth = 10
  /\ geoOut[2].in.settings.frameWidth = 50

\* C9: without frameWidths every border is (imageW + imageH) / 2 *
\* frameWidth / 100 and the canvas is the image plus two borders each way;
\* a 1000x800 image with frameWidth 10 has borders of 90 and a 1180x980
\* canvas.
C9_UniformGeometry ==
  \A i \in DOMAIN geoOut :
    LET e == geoOut[i]
        W == e.in.imageWidth
        H == e.in.imageHeight
        percent == e.in.settings.frameWidth
    IN ~Has(e.in.settings, "frameWidths") =>
         /\ \A b \in {e.g.topPx, e.g.rightPx, e.g.bottomPx, e.g.leftPx} :
              b * 2 * 100 = PxScale * (W + H) * percent
         /\ e.g.canvasWidth = W * PxScale + 2 * e.g.leftPx
         /\ e.g.canvasHeight = H * PxScale + 2 * e.g.topPx
         /\ (W = 1000 /\ H = 800 /\ percent = 10) =>
              /\ e.g.topPx = 90 * PxScale /\ e.g.rightPx = 90 * PxScale
              /\ e.g.bottomPx = 90 * PxScale /\ e.g.leftPx = 90 * PxScale
              /\ e.width = 1180 /\ e.height = 980

C9_Witness ==
  \E i \in DOMAIN geoOut :
    /\ ~Has(geoOut[i].in.settings, "frameWidths")
    /\ geoOut[i].in.imageWidth = 1000
    /\ geoOut[i].in.imageHeight = 800
    /\ geoOut[i].in.settings.frameWidth = 10

\* C10: with frameWidths every border is (imageW + imageH) / 2 * its own
\* percent / 100 and the canvas is the image plus the borders beside it; a
\* 1000x800 image with 2, 2, 12, 2 has a bottom of 108, other borders of 18
\* and a 1036x926 canvas.
C10_PerSideGeometry ==
  \A i \in DOMAIN geoOut :
    LET e == geoOut[i]
        W == e.in.imageWidth
        H == e.in.imageHeight
    IN Has(e.in.settings, "frameWidths") =>
         LET sides == e.in.settings.frameWidths
         IN /\ e.g.topPx * 2 * 100 = PxScale * (W + H) * sides.top
            /\ e.g.rightPx * 2 * 100 = PxScale * (W + H) * sides.right
            /\ e.g.bottomPx * 2 * 100 = PxScale * (W + H) * sides.bottom
            /\ e.g.leftPx * 2 * 100 = PxScale * (W + H) * sides.left
            /\ e.g.canvasWidth = W * PxScale + e.g.leftPx + e.g.rightPx
            /\ e.g.canvasHeight = H * PxScale + e.g.topPx + e.g.bottomPx
            /\ (/\ W = 1000 /\ H = 800
                /\ sides = [top |-> 2, right |-> 2, bottom |-> 12, left |-> 2]) =>
                 /\ e.g.bottomPx = 108 * PxScale
                 /\ e.g.topPx = 18 * PxScale
                 /\ e.g.rightPx = 18 * PxScale
                 /\ e.g.leftPx = 18 * PxScale
                 /\ e.width = 1036 /\ e.height = 926

C10_Witness ==
  \E i \in DOMAIN geoOut :
    /\ Has(geoOut[i].in.settings, "frameWidths")
    /\ geoOut[i].in.settings.frameWidths =
         [top |-> 2, right |-> 2, bottom |-> 12, left |-> 2]
    /\ geoOut[i].in.imageWidth = 1000
    /\ geoOut[i].in.imageHeight = 800

\* The settings the geometry is computed from.
GeometrySettings(settings) ==
  IF Has(settings, "frameWidths")
  THEN [frameWidth |-> settings.frameWidth, frameWidths |-> settings.frameWidths]
  ELSE [frameWidth |-> settings.frameWidth]

\* The rows of a pass's overlay lie between the top of the bottom border and
\* the bottom edge of the pass.  A text of size s with the alphabetic
\* baseline at y and no descender lies in [y - s, y]; with the top baseline
\* at y it lies in [y, y + s].
InsideBottomBorder(pass) ==
  LET o == pass.overlay
      borderTop == (pass.imageY + Files[pass.photo].height * PxScale) * RowScale
      borderBottom == pass.height * RowScale
  IN /\ borderTop <= o.logoY
     /\ o.logoY + o.logoHeight <= borderBottom
     /\ o.shotOn # Null =>
          /\ borderTop <= o.mainRowBottomY - o.shotOnTextSize
          /\ o.mainRowBottomY <= borderBottom
     /\ o.exif # Null =>
          /\ borderTop <= o.exifY
          /\ o.exifY + o.exifTextSize <= borderBottom

\* C11: the canvas size a photo decode sets is the geometry of the photo and
\* of frameWidth / frameWidths alone; the logo redraw leaves the canvas size
\* as it is; and the logo, the 'Shot on' text and the EXIF row of every
\* overlay on the canvas lie inside the bottom border.
C11_NoTextAreaInflation ==
  [][/\ \A d \in decodes :
          (d \notin decodes' /\ d.kind = "photo" /\ Files[d.input.imageUrl.blob].decodes)
          => LET file == Files[d.input.imageUrl.blob]
                 g == computeGeometry(file.width, file.height,
                                      GeometrySettings(d.input.frameSettings))
             IN /\ canvas'.width = CanvasAttr(g.canvasWidth)
                /\ canvas'.height = CanvasAttr(g.canvasHeight)
     /\ \A d \in decodes :
          (d \notin decodes' /\ d.kind = "logo")
          => canvas'.width = canvas.width /\ canvas'.height = canvas.height
     /\ \A i \in DOMAIN canvas'.passes :
          canvas'.passes[i].overlay # Null => InsideBottomBorder(canvas'.passes[i])]_vars

\* The logo redraw of a run with text, 'Shot on' and EXIF enabled has drawn
\* its three rows in a bottom border that is thicker than the others.
C11_Witness ==
  /\ canvas.passes # <<>>
  /\ LET pass == canvas.passes[Len(canvas.passes)]
     IN /\ pass.overlay # Null
        /\ pass.overlay.shotOn # Null
        /\ pass.overlay.exif # Null
        /\ pass.overlay.logoHeight > 0
        /\ canvas.height * PxScale = pass.height
        /\ pass.height - pass.imageY - Files[pass.photo].height * PxScale > pass.imageY

\* C12: when the photo of the current input fails to decode, the canvas
\* holds nothing afterwards: no photo and nothing of an earlier composition.
C12_PhotoFailureLeavesEmptySurface ==
  [][\A d \in decodes :
       (/\ d \notin decodes'
        /\ d.kind = "photo"
        /\ d.input = CurrentInput
        /\ ~Files[d.input.imageUrl.blob].decodes)
       => canvas'.passes = <<>>]_vars

\* C13: when the logo of the current input fails to load after its photo was
\* drawn, the canvas is the base composition of the current input without
\* overlay and a diagnostic is logged.
C13_LogoFailureLogged ==
  [][\A d \in decodes :
       (/\ d \notin decodes'
        /\ d.kind = "logo"
        /\ d.input = CurrentInput
        /\ canvas.passes # <<>>
        /\ canvas.passes[Len(canvas.passes)].overlay = Null
        /\ canvas' = canvas)
       => /\ canvas'.passes = <<BasePass(CurrentInput)>>
          /\ log' \ log # {}]_vars

\* console.error messages and uncaught rejections of storage operations.
StorageFailures ==
  {"Failed to save image to storage:", "Error loading image from storage",
   "Error clearing image from storage", "Failed to load stored image:",
   "Uncaught (in promise) Failed to clear image from IndexedDB"}

\* No save is waiting or under way.
NoSavePending == \A i \in DOMAIN storageOps : storageOps[i].op # "save"

C15_FailedLoadClearsSlot ==
  (storageOps = <<>> /\ imageFile = Null /\ runs = 0 /\ ~effectPending)
  => /\ imageStore = Null
     /\ "Uncaught (in promise) Failed to clear image from IndexedDB" \notin log

\* The keys of the brand table.
BrandKeys == {CAMERA_BRANDS[i].make : i \in DOMAIN CAMERA_BRANDS}

\* C16: getCameraLogoPath returns null when make is absent or empty and when
\* the normalized make is not a key of the brand table, whatever the model
\* and the background.
C16_NoBrandNoLogo ==
  (callOut # <<>> /\ callIn.fn = "getCameraLogoPath")
  => ((callIn.make = <<>> \/ normalize(callIn.make) \notin BrandKeys)
      => callOut[1] = Null)

\* The paths of the brand's folder: one per model prefix and the brand logo.
BrandPaths(brand, variant) ==
  {LogoPath(brand.folder, brand.models[i][2], variant) : i \in DOMAIN brand.models}
    \cup {LogoPath(brand.folder, brand.brandLogo, variant)}

\* C17: a path getCameraLogoPath returns is /logos/<folder>/<prefix>_<variant>.webp
\* for the folder and a prefix of a brand of the table, with variant white
\* exactly on a dark background; FUJIFILM, X100VI on a light background
\* gives x100vi_black.webp.
C17_LogoPathForm ==
  (callOut # <<>> /\ callIn.fn = "getCameraLogoPath")
  => /\ (callOut[1] # Null /\ callOut[1] # Throws)
        => \E i \in DOMAIN CAMERA_BRANDS :
             callOut[1] \in BrandPaths(CAMERA_BRANDS[i],
                                       IF callIn.isDarkBackground THEN "white" ELSE "black")
     /\ (/\ callIn.make = <<"F", "U", "J", "I", "F", "I", "L", "M">>
         /\ callIn.model = <<"X", "1", "0", "0", "V", "I">>
         /\ ~callIn.isDarkBackground)
        => callOut[1] = LogoPath("fujifilm", "x100vi", "black")

Formatted == callIn.fn = "formatExifString" /\ callOut # <<>>

\* A formatted number has at most one decimal digit, and that digit is not 0.
ShortDecimal(number) == Len(number.frac) <= 1 /\ number.frac # <<0>>

\* C19: a formatted focal length and a formatted aperture have at most one
\* decimal digit and never end in '.0'.
C19_OneDecimalNoTrailingZero ==
  Formatted =>
    /\ callOut[1].focalLength # Null => ShortDecimal(callOut[1].focalLength.number)
    /\ callOut[1].aperture # Null => ShortDecimal(callOut[1].aperture.number)

\* The value of up to three decimal digits, in 1/MilliScale.
FracValue(frac) ==
  (IF Len(frac) >= 1 THEN frac[1] * 100 ELSE 0)
    + (IF Len(frac) >= 2 THEN frac[2] * 10 ELSE 0)
    + (IF Len(frac) >= 3 THEN frac[3] ELSE 0)

\* C20: a shutter speed of 1 s or more is formatted as the value followed by
\* 's'; a shorter one as '1/' followed by the integer nearest to 1 / value,
\* with nothing after it; 0.004 gives 1/250 and 2 gives 2s.
C20_ShutterSpeedNotation ==
  (Formatted /\ Has(callIn.exifData, "shutterSpeed") /\ callIn.exifData.shutterSpeed > 0)
  => LET value == callIn.exifData.shutterSpeed
         out == callOut[1].shutterSpeed
     IN /\ out # Null
        /\ value >= MilliScale =>
             /\ out.before = "" /\ out.after = "s"
             /\ out.number.int * MilliScale + FracValue(out.number.frac) = value
             /\ out.number.frac = <<>> \/ out.number.frac[Len(out.number.frac)] # 0
        /\ value < MilliScale =>
             /\ out.before = "1/" /\ out.after = "" /\ out.number.frac = <<>>
             /\ (2 * out.number.int - 1) * value <= 2 * MilliScale
             /\ 2 * MilliScale < (2 * out.number.int + 1) * value
        /\ value = 4 => out = [before |-> "1/", number |-> [int |-> 250, frac |-> <<>>],
                               after |-> ""]
        /\ value = 2 * MilliScale =>
             out = [before |-> "", number |-> [int |-> 2, frac |-> <<>>], after |-> "s"]

\* A shutter speed of 0.004 s was formatted.
C20_Witness ==
  /\ Formatted
  /\ Has(callIn.exifData, "shutterSpeed")
  /\ callIn.exifData.shutterSpeed = 4
  /\ callOut[1].shutterSpeed # Null

\* The EXIF properties formatExifString reads, in the order it formats them.
ExifKeys == <<"focalLength", "aperture", "shutterSpeed", "iso">>

\* The property a formatted field was made from, told by its unit or prefix.
FieldOf(part) ==
  CASE part.after = "mm" -> "focalLength"
    [] part.before = "f/" -> "aperture"
    [] part.before = "ISO" -> "iso"
    [] OTHER -> "shutterSpeed"

\* C21: the summary has one field for every property of the EXIF record that
\* has a value, and no other, in the order focal length, aperture, shutter
\* speed, ISO, with two spaces between neighbours; it is absent when no
\* property has a value.
C21_JoinsPresentFields ==
  Formatted =>
    LET present == SelectSeq(ExifKeys, LAMBDA k : Has(callIn.exifData, k))
        out == callOut[1].exifString
    IN IF present = <<>>
       THEN out = Null
       ELSE /\ out # Null
            /\ Len(out.text) = Len(present)
            /\ \A i \in DOMAIN out.text :
                 /\ i <= Len(present) => FieldOf(out.text[i].field) = present[i]
                 /\ out.text[i].then = (IF i < Len(out.text) THEN "  " ELSE "")

\* C22: when the photo of a run has been drawn, the run starts a logo decode
\* exactly when textEnabled is true and getCameraLogoPath returns a path for
\* the make and model of the run's EXIF and the darkness of its frameColor;
\* when it starts none, the canvas holds the background and the photo alone
\* and the run has no decode left.
C22_LogoDecodeOnlyWithTextAndPath ==
  [][\A d \in decodes :
       (d \notin decodes' /\ d.kind = "photo" /\ Files[d.input.imageUrl.blob].decodes)
       => LET settings == d.input.frameSettings
              resolved == getCameraLogoPath(OptString(d.input.exifData, "make"),
                                            OptString(d.input.exifData, "model"),
                                            isDarkBackground(settings.frameColor))
              wanted == /\ Has(settings, "textEnabled") /\ settings.textEnabled
                        /\ Has(resolved, "path")
              started == {n \in decodes' \ decodes : n.run = d.run}
          IN /\ wanted <=> \E n \in started : n.kind = "logo"
             /\ wanted => \A n \in started : n.kind = "logo" /\ n.logoPath = resolved
             /\ ~wanted =>
                  /\ \A n \in decodes' : n.run # d.run
                  /\ Len(canvas'.passes) = 1
                  /\ canvas'.passes[1].overlay = Null
                  /\ canvas'.passes[1].photo = d.input.imageUrl.blob
                  /\ canvas'.passes[1].fill = settings.frameColor]_vars

\* A run with textEnabled whose EXIF resolves to no logo has ended with the
\* base composition.
C22_Witness ==
  /\ imageUrl # Null
  /\ ~effectPending
  /\ decodes = {}
  /\ Has(frameSettings, "textEnabled") /\ frameSettings.textEnabled
  /\ exifData = Null
  /\ canvas.passes = <<BasePass(CurrentInput)>>

\* The calls on the 2d context one pass makes, in the order of the code.
DrawCalls(pass) ==
  <<"clearRect", "fillRect", "drawImage photo">>
    \o (IF pass.overlay = Null THEN <<>>
        ELSE (IF pass.overlay.shotOn # Null THEN <<"fillText Shot on">> ELSE <<>>)
               \o <<"drawImage logo">>
               \o (IF pass.overlay.exif # Null THEN <<"fillText exif">> ELSE <<>>))

\* C23: when a logo decode succeeds and its run draws, the canvas afterwards
\* holds that one pass alone, nothing drawn before it is left: the clear,
\* the fill with frameColor, the photo at (leftPx, topPx), then the overlay,
\* and no call after the photo draws the photo.
C23_LogoRedrawsWholeSurface ==
  [][\A d \in decodes :
       (d \notin decodes' /\ d.kind = "logo" /\ canvas' # canvas)
       => /\ Len(canvas'.passes) = 1
          /\ LET pass == canvas'.passes[1]
                 calls == DrawCalls(pass)
                 g == Geometry(d.input)
             IN /\ pass.overlay # Null
                /\ pass.fill = d.input.frameSettings.frameColor
                /\ pass.photo = d.input.imageUrl.blob
                /\ pass.imageX = g.leftPx /\ pass.imageY = g.topPx
                /\ SubSeq(calls, 1, 3) = <<"clearRect", "fillRect", "drawImage photo">>
                /\ \A i \in 4..Len(calls) :
                     calls[i] \in {"fillText Shot on", "drawImage logo", "fillText exif"}]_vars

\* The prefix the resolution order of C24 gives for a brand of the table and
\* a normalized model (the empty tuple when no model is given).
PrefixByOrder(brand, normalizedModel) ==
  LET keyOf(i) == brand.models[i][1]
      exact == {i \in DOMAIN brand.models : keyOf(i) = normalizedModel}
      partial == {i \in DOMAIN brand.models :
                    includes(keyOf(i), normalizedModel) \/ includes(normalizedModel, keyOf(i))}
      least(S) == CHOOSE i \in S : \A j \in S : i <= j
  IN IF normalizedModel = <<>> THEN brand.brandLogo
     ELSE IF exact # {} THEN brand.models[least(exact)][2]
     ELSE IF /\ brand.folder = "apple"
             /\ includes(normalizedModel, <<"i", "p", "h", "o", "n", "e">>)
     THEN "iphone"
     ELSE IF partial # {} THEN brand.models[least(partial)][2]
     ELSE brand.brandLogo

\* C24: for a make of the brand table the path has the prefix of the exact
\* key match of the normalized model, else for apple and a model containing
\* 'iphone' the prefix iphone, else the prefix of the first entry in
\* declaration order whose key contains the model or is contained in it,
\* else, and without a model, the brand logo; FUJIFILM X-H2S gives x-h2s.
C24_ModelResolutionOrder ==
  (/\ callOut # <<>> /\ callIn.fn = "getCameraLogoPath"
   /\ callIn.make # <<>> /\ normalize(callIn.make) \in BrandKeys)
  => LET brand == CAMERA_BRANDS[CHOOSE i \in DOMAIN CAMERA_BRANDS :
                                  CAMERA_BRANDS[i].make = normalize(callIn.make)]
         normalizedModel == IF callIn.model # <<>> THEN normalize(callIn.model) ELSE <<>>
         variant == IF callIn.isDarkBackground THEN "white" ELSE "black"
     IN /\ callOut[1] = LogoPath(brand.folder, PrefixByOrder(brand, normalizedModel), variant)
        /\ (brand.folder = "fujifilm" /\ normalizedModel = <<"x", "-", "h", "2", "s">>)
           => callOut[1] = LogoPath("fujifilm", "x-h2s", variant)

\* The settings are those of the preset selectedPreset names.
PresetApplied ==
  \E P \in PresetSet :
    P.name = selectedPreset /\ frameSettings = Spread(DEFAULT_SETTINGS, P)

\* C25: whenever selectedPreset is a name, frameSettings is DEFAULT_SETTINGS
\* overridden by the preset of that name; and every step that sets
\* frameSettings to something that is no preset over the defaults (a manual
\* change, a reset) leaves selectedPreset empty.
C25_PresetNameMatchesSettings ==
  /\ [](selectedPreset # "" => PresetApplied)
  /\ [][(/\ ~effectPending /\ effectPending'
         /\ UNCHANGED <<imageUrl, exifData, exifJobs>>
         /\ \A P \in PresetSet : frameSettings' # Spread(DEFAULT_SETTINGS, P))
        => selectedPreset' = ""]_vars

\* A preset was selected after a manual change whose composition is still
\* decoding.
C25_Witness ==
  /\ selectedPreset = "Classic White"
  /\ effectPending
  /\ \E d \in decodes : /\ d.run = runs
                        /\ d.input.frameSettings.frameWidth = 10
                        /\ ~Has(d.input.frameSettings, "name")

\* What extractExifData sets exifData to for a file.
ExifDataOf(f) ==
  LET exif == Files[f].exif
  IN IF exif = Null \/ exif = Throws THEN Null
     ELSE [make |-> exif.Make,
           model |-> exif.Model,
           focalLength |-> exif.FocalLength,
           iso |-> exif.ISO,
           shutterSpeed |-> exif.ExposureTime,
           aperture |-> exif.FNumber]

\* C26: once every EXIF extraction that was started has completed, exifData
\* is the EXIF of the image that is displayed, or null when that image has
\* none.
C26_ExifOfDisplayedImage ==
  (imageFile # Null /\ exifJobs = {}) => exifData = ExifDataOf(imageFile.id)

\* C27: whenever imageUrl is null and the effect has run for it, the canvas
\* has zero width and zero height, whatever decode callbacks of earlier runs
\* have completed since.
C27_NoImageNoSurface ==
  (imageUrl = Null /\ ~effectPending) => (canvas.width = 0 /\ canvas.height = 0)

\* A step of handleReset, told from the other steps of ResetSpec: the effect
\* becomes pending and no EXIF extraction starts or ends.
ResetStep ==
  /\ ~effectPending /\ effectPending'
  /\ exifJobs' = exifJobs

C29_ExportLoadingEnds == exportLoading ~> ~exportLoading

\* An export of a composed photo got its blob, started the download and the
\* timer has hidden the dialog.
C29_Witness ==
  /\ exportJob.state = "done"
  /\ exportJob.width > 0
  /\ exportJob.filename \in downloads
  /\ ~exportLoading

\* C30: for every frame colour the background counts as dark exactly when
\* the contrast-aware text colour is '#ffffff': a white logo goes with white
\* text and a black logo with black text.
C30_LogoVariantMatchesTextColor ==
  (callIn.fn = "overlayColors" /\ callOut # <<>>)
  => /\ callOut[1].darkBg <=> callOut[1].effectiveTextColor = ColorWhite
     /\ ~callOut[1].darkBg <=> callOut[1].effectiveTextColor = ColorBlack

====
